---- MODULE Spec2Model ----
(***************************************************************************)
(* The results dashboard (app.py) and the static chart export              *)
(* (plot_results.py): results.csv is read, its metric columns are coerced  *)
(* to numbers, rows are grouped and averaged, and the means are shown as   *)
(* stat cards, chart series, pivots and bar labels.                        *)
(*                                                                         *)
(* Numbers are exact rationals n/d (a float64 is idealised), NaN and the   *)
(* infinities are values of their own, and a piece of text is a value of   *)
(* kind "str".  A formatted figure is a value of kind "fig": the number    *)
(* rounded to the format's decimals, scaled by d.                          *)
(***************************************************************************)
EXTENDS Integers, Sequences, FiniteSets, TLC

\* The longest results.csv (data rows) the inputs hold.
MaxRows == 2

(***************************************************************************)
(* Values                                                                  *)
(***************************************************************************)
V(k, n, d, s) == [k |-> k, n |-> n, d |-> d, s |-> s]

RECURSIVE GCD(_, _)
GCD(a, b) == IF b = 0 THEN a ELSE GCD(b, a % b)

Abs(n) == IF n < 0 THEN -n ELSE n

\* The number n/d (d > 0), in lowest terms.
Rat(n, d) ==
    LET g == GCD(Abs(n), d)
    IN  V("num", n \div g, d \div g, "")

Num(n) == Rat(n, 1)
NaN == V("nan", 0, 1, "")
PosInf == V("inf", 1, 1, "")
NegInf == V("inf", -1, 1, "")
Str(s) == V("str", 0, 1, s)
Blank == Str("")

IsNum(v) == v.k = "num"
IsNaN(v) == v.k = "nan"

\* float64 arithmetic as the summary uses it: NaN propagates, and a division
\* by zero gives an infinity or NaN (numpy warns, it does not raise).
Add(a, b) ==
    IF IsNum(a) /\ IsNum(b) THEN Rat(a.n * b.d + b.n * a.d, a.d * b.d) ELSE NaN

Sub(a, b) ==
    IF IsNum(a) /\ IsNum(b) THEN Rat(a.n * b.d - b.n * a.d, a.d * b.d) ELSE NaN

Div(a, b) ==
    IF ~(IsNum(a) /\ IsNum(b)) THEN NaN
    ELSE IF b.n = 0
         THEN IF a.n = 0 THEN NaN ELSE IF a.n > 0 THEN PosInf ELSE NegInf
         ELSE IF b.n > 0 THEN Rat(a.n * b.d, a.d * b.n)
              ELSE Rat(-(a.n * b.d), a.d * (-b.n))

Times100(a) ==
    IF IsNum(a) THEN Rat(a.n * 100, a.d) ELSE a

\* n/d rounded to the nearest integer, a tie going to the even one.
RoundHalfEven(n, d) ==
    LET f == n \div d
        r == n % d
    IN  IF 2 * r > d THEN f + 1
        ELSE IF 2 * r < d THEN f
        ELSE IF f % 2 = 0 THEN f ELSE f + 1

\* format(v, ".<dec>f") with scale = 10^dec: "nan", "inf", "-inf", or the
\* rounded figure.
Format(v, scale) ==
    IF IsNum(v) THEN V("fig", RoundHalfEven(v.n * scale, v.d), scale, "")
    ELSE IF IsNaN(v) THEN Str("nan")
    ELSE IF v.n > 0 THEN Str("inf") ELSE Str("-inf")

(***************************************************************************)
(* results.csv and the table read from it                                  *)
(***************************************************************************)
HybridAlgo == "Hybrid ACO-PSO"
AcoAlgo == "ACO"
PsoAlgo == "PSO"

\* The algorithm labels in Python's string order.
AlgoOrder == <<AcoAlgo, HybridAlgo, PsoAlgo>>

cols_to_clean == <<"BestFitness", "Power", "Load", "Network", "Link">>
metrics_to_plot == <<"BestFitness", "Power", "Load", "Network", "Link">>

Range(s) == {s[i] : i \in DOMAIN s}

\* A cell's text, and the number it parses to when it is one.
NumberTexts == {"0", "100", "120"}
ParseNumber(t) ==
    CASE t = "0" -> 0
      [] t = "100" -> 100
      [] t = "120" -> 120

NoFile == [exists |-> FALSE, header |-> {}, rows |-> <<>>]

None == [none |-> TRUE, columns |-> {}, rows |-> <<>>]

\* pd.read_csv: a column whose cells are all numbers is numeric, any other
\* column holds its cells' text.
read_csv(file) ==
    LET numeric == {c \in file.header :
                      \A i \in DOMAIN file.rows : file.rows[i].cells[c] \in NumberTexts}
        cell(i, c) ==
            IF c \in numeric THEN Num(ParseNumber(file.rows[i].cells[c]))
            ELSE Str(file.rows[i].cells[c])
    IN  [none |-> FALSE,
         columns |-> file.header,
         rows |-> [i \in DOMAIN file.rows |->
                     [HostCount |-> file.rows[i].HostCount,
                      Algorithm |-> file.rows[i].Algorithm,
                      cells |-> [c \in file.header |-> cell(i, c)]]]]

\* errors='ignore' in place of 'coerce': text that is no number stays.
to_numeric_ignore(v) ==
    IF v.k = "str" /\ v.s \in NumberTexts THEN Num(ParseNumber(v.s)) ELSE v

\* pd.to_numeric(errors='coerce') on one cell.
to_numeric(v) ==
    IF v.k = "str"
    THEN IF v.s \in NumberTexts THEN Num(ParseNumber(v.s)) ELSE NaN
    ELSE v

\* The cleaning loop: each listed column that the table has is coerced.
Clean(df, cols) ==
    [df EXCEPT !.rows =
        [i \in DOMAIN df.rows |->
            [df.rows[i] EXCEPT !.cells =
                [c \in df.columns |->
                    IF c \in Range(cols) THEN to_numeric(df.rows[i].cells[c])
                    ELSE df.rows[i].cells[c]]]]]

\* The body of load_data.
load_data_body(file) ==
    IF ~file.exists THEN None ELSE Clean(read_csv(file), cols_to_clean)

(***************************************************************************)
(* Grouping and averaging                                                  *)
(***************************************************************************)
RECURSIVE SortedSeq(_)
\* sorted(S) for a set of integers.
SortedSeq(S) ==
    IF S = {} THEN <<>>
    ELSE LET m == CHOOSE x \in S : \A y \in S : x <= y
         IN  <<m>> \o SortedSeq(S \ {m})

\* sorted(S) for a set of algorithm labels.
SortedAlgos(S) == SelectSeq(AlgoOrder, LAMBDA a : a \in S)

HostsOf(rows) == {rows[i].HostCount : i \in DOMAIN rows}
AlgosOf(rows) == {rows[i].Algorithm : i \in DOMAIN rows}

Column(rows, c) == [i \in DOMAIN rows |-> rows[i].cells[c]]

RECURSIVE SumSeq(_)
SumSeq(vals) ==
    IF Len(vals) = 0 THEN Num(0) ELSE Add(Head(vals), SumSeq(Tail(vals)))

\* The mean with a missing cell counted as zero (fillna(0) before mean()).
Mean_ZeroFilled(vals) ==
    IF Len(vals) = 0 THEN NaN
    ELSE Div(SumSeq(SelectSeq(vals, LAMBDA v : ~IsNaN(v))), Num(Len(vals)))

\* Series.mean(): NaN cells are skipped, and no cell left gives NaN.
Mean(vals) ==
    LET kept == SelectSeq(vals, LAMBDA v : ~IsNaN(v))
    IN  IF Len(kept) = 0 THEN NaN
        ELSE Div(SumSeq(kept), Num(Len(kept)))

\* df.groupby(['HostCount', 'Algorithm'])[c].mean().reset_index(): one row
\* per key that has rows, the keys in ascending order.
GroupMeans(rows, c) ==
    LET hs == SortedSeq(HostsOf(rows))
        as == SortedAlgos(AlgosOf(rows))
        all == [i \in 1..(Len(hs) * Len(as)) |->
                  [HostCount |-> hs[((i - 1) \div Len(as)) + 1],
                   Algorithm |-> as[((i - 1) % Len(as)) + 1]]]
        group(key) == SelectSeq(rows, LAMBDA r : r.HostCount = key.HostCount
                                              /\ r.Algorithm = key.Algorithm)
        keys == SelectSeq(all, LAMBDA key : Len(group(key)) > 0)
    IN  [i \in DOMAIN keys |->
           [HostCount |-> keys[i].HostCount,
            Algorithm |-> keys[i].Algorithm,
            val |-> Mean(Column(group(keys[i]), c))]]

\* df.groupby('Algorithm')[cols].mean(): per algorithm that has rows, the
\* mean of each column.
AlgoMeans(rows, cols) ==
    [a \in AlgosOf(rows) |->
        [c \in Range(cols) |->
            Mean(Column(SelectSeq(rows, LAMBDA r : r.Algorithm = a), c))]]

(***************************************************************************)
(* app.py: one pass of the dashboard script                                *)
(***************************************************************************)
VARIABLES
    file,    \* results.csv on disk
    cache,   \* what st.cache_data holds for load_data
    page,    \* what the dashboard pass of this step rendered
    figure   \* what the export run of this step produced

vars == <<file, cache, page, figure>>

NoCache == [set |-> FALSE, value |-> None]

NoCards ==
    [fit_value |-> Blank, fit_diff |-> Blank,
     pwr_value |-> Blank, pwr_diff |-> Blank,
     rel_value |-> Blank,
     hybrid_fit |-> NaN, hybrid_pwr |-> NaN, comp_fit |-> NaN, comp_pwr |-> NaN,
     fit_imp |-> NaN, pwr_imp |-> NaN, success_rate |-> NaN]

NoPage ==
    [ran |-> FALSE, shown |-> {}, selected_hosts |-> {}, metric |-> "",
     cards |-> NoCards, chart_df |-> <<>>]

\* load_data under @st.cache_data: the function takes no argument, so one
\* entry serves every call until the cache is cleared.
cached_load_data(c, f) == IF c.set THEN c.value ELSE load_data_body(f)

\* The memo after the call returned df.
cache_after_load(c, df) ==
    IF c.set THEN c ELSE [set |-> TRUE, value |-> df]

\* The share taken over every selected row, not the hybrid's alone.
SuccessRate_AllRows(filtered) ==
    LET hybrid_rows == SelectSeq(filtered, LAMBDA r : r.Algorithm = HybridAlgo)
        notna == SelectSeq(Column(hybrid_rows, "BestFitness"),
                           LAMBDA v : ~IsNaN(v))
    IN  Times100(Div(Num(Len(notna)), Num(Len(filtered))))

\* The share of the hybrid's selected rows whose BestFitness is not NaN.
SuccessRate(filtered) ==
    LET hybrid_rows == SelectSeq(filtered, LAMBDA r : r.Algorithm = HybridAlgo)
        notna == SelectSeq(Column(hybrid_rows, "BestFitness"),
                           LAMBDA v : ~IsNaN(v))
    IN  Times100(Div(Num(Len(notna)), Num(Len(hybrid_rows))))

\* The three stat cards, with the values they are computed from.
StatCards(filtered, avg_stats) ==
    LET hybrid_fit == avg_stats[HybridAlgo]["BestFitness"]
        hybrid_pwr == avg_stats[HybridAlgo]["Power"]
        comp_fit == avg_stats[AcoAlgo]["BestFitness"]
        comp_pwr == avg_stats[AcoAlgo]["Power"]
        fit_imp == Times100(Div(Sub(comp_fit, hybrid_fit), comp_fit))
        pwr_imp == Times100(Div(Sub(comp_pwr, hybrid_pwr), comp_pwr))
        success_rate == SuccessRate(filtered)
    IN  [fit_value |-> Format(hybrid_fit, 1), fit_diff |-> Format(fit_imp, 10),
         pwr_value |-> Format(hybrid_pwr, 1), pwr_diff |-> Format(pwr_imp, 10),
         rel_value |-> Format(success_rate, 1),
         hybrid_fit |-> hybrid_fit, hybrid_pwr |-> hybrid_pwr,
         comp_fit |-> comp_fit, comp_pwr |-> comp_pwr,
         fit_imp |-> fit_imp, pwr_imp |-> pwr_imp,
         success_rate |-> success_rate]

\* The check left out: an empty selection goes on to the charts.
NoneSelected_Never(selected_hosts) == FALSE

\* `if not selected_hosts`.
NoneSelected(selected_hosts) == selected_hosts = {}

\* The script from `df = load_data()` on, given the table load_data
\* returned and the widgets' values.
Script(df, selected_hosts, metric) ==
    LET filtered == SelectSeq(df.rows, LAMBDA r : r.HostCount \in selected_hosts)
        avg_stats == AlgoMeans(filtered, cols_to_clean)
        base == [NoPage EXCEPT !.ran = TRUE]
    IN  IF df.none \/ Len(df.rows) = 0
        THEN [base EXCEPT !.shown = {"error"}]
        ELSE IF NoneSelected(selected_hosts)
        THEN [base EXCEPT !.shown = {"sidebar", "warning"}]
        ELSE IF ~(Range(cols_to_clean) \subseteq df.columns)
        THEN \* groupby(...)[[...]] raises KeyError: the pass ends there
             [base EXCEPT !.shown = {"sidebar", "title", "exception"},
                          !.selected_hosts = selected_hosts]
        ELSE [base EXCEPT
                !.shown = {"sidebar", "title", "charts", "raw_table"}
                          \cup (IF HybridAlgo \in DOMAIN avg_stats
                                   /\ AcoAlgo \in DOMAIN avg_stats
                                THEN {"quality_card", "energy_card",
                                      "reliability_card"}
                                ELSE {}),
                !.selected_hosts = selected_hosts,
                !.metric = metric,
                !.cards = IF HybridAlgo \in DOMAIN avg_stats
                             /\ AcoAlgo \in DOMAIN avg_stats
                          THEN StatCards(filtered, avg_stats)
                          ELSE NoCards,
                !.chart_df = GroupMeans(filtered, metric)]

(***************************************************************************)
(* plot_results.py: one run of the static export                           *)
(***************************************************************************)
NoFigure ==
    [ran |-> FALSE, status |-> "", df |-> None, host_counts |-> <<>>,
     algorithms |-> <<>>, avg_data |-> <<>>, pivot_data |-> <<>>,
     labels |-> <<>>]

\* The pivot with fill_value=0: a pair avg_data lacks becomes zero.
Pivot_ZeroFilled(avg_data) ==
    LET index == SortedSeq(HostsOf(avg_data))
        columns == SortedAlgos(AlgosOf(avg_data))
        hit(h, a) == {i \in DOMAIN avg_data : avg_data[i].HostCount = h
                                           /\ avg_data[i].Algorithm = a}
    IN  [index |-> index,
         columns |-> columns,
         cell |-> [h \in Range(index) |->
                     [a \in Range(columns) |->
                        IF hit(h, a) = {} THEN Num(0)
                        ELSE avg_data[CHOOSE i \in hit(h, a) : TRUE].val]]]

\* avg_data.pivot(index='HostCount', columns='Algorithm', values=col): the
\* index and the columns ascending, a pair avg_data lacks left NaN.
Pivot(avg_data) ==
    LET index == SortedSeq(HostsOf(avg_data))
        columns == SortedAlgos(AlgosOf(avg_data))
        hit(h, a) == {i \in DOMAIN avg_data : avg_data[i].HostCount = h
                                           /\ avg_data[i].Algorithm = a}
    IN  [index |-> index,
         columns |-> columns,
         cell |-> [h \in Range(index) |->
                     [a \in Range(columns) |->
                        IF hit(h, a) = {} THEN NaN
                        ELSE avg_data[CHOOSE i \in hit(h, a) : TRUE].val]]]

\* One bar's label: two decimals for Load and Link, none for the others, and
\* no text for NaN or for a value that is not above zero.
BarLabel(col_name, v) ==
    IF IsNum(v) /\ v.n > 0
    THEN IF col_name \in {"Load", "Link"} THEN Format(v, 100) ELSE Format(v, 1)
    ELSE Blank

\* The labels of one algorithm's bars, one per row of the pivot.
BarLabels(col_name, pivot, algo) ==
    [i \in DOMAIN pivot.index |->
        BarLabel(col_name, pivot.cell[pivot.index[i]][algo])]

\* create_minimal_dashboard(df), reached with at least one algorithm.
create_minimal_dashboard(df) ==
    LET algorithms == SortedAlgos(AlgosOf(df.rows))
        host_counts == SortedSeq(HostsOf(df.rows))
        plotted == Range(metrics_to_plot) \cap df.columns
        avg_data == [c \in plotted |-> GroupMeans(df.rows, c)]
        pivot_data == [c \in plotted |-> Pivot(avg_data[c])]
    IN  [ran |-> TRUE, status |-> "saved", df |-> df,
         host_counts |-> host_counts,
         algorithms |-> algorithms,
         avg_data |-> avg_data,
         pivot_data |-> pivot_data,
         labels |-> [c \in plotted |->
                       [a \in Range(algorithms) |->
                          BarLabels(c, pivot_data[c], a)]]]

\* The __main__ block: no file, a message and exit; a table without rows has
\* no algorithm, the slot width divides by zero and the handler prints the
\* error.
Export(f) ==
    IF ~f.exists
    THEN [NoFigure EXCEPT !.ran = TRUE, !.status = "not_found"]
    ELSE LET df == Clean(read_csv(f), metrics_to_plot)
         IN  IF Len(df.rows) = 0
             THEN [NoFigure EXCEPT !.ran = TRUE, !.status = "error", !.df = df]
             ELSE create_minimal_dashboard(df)

(***************************************************************************)
(* Inputs                                                                  *)
(***************************************************************************)
HostInputs == {10, 20}
AlgoInputs == {AcoAlgo, PsoAlgo, HybridAlgo}
TextInputs == NumberTexts \cup {"FAILED"}
MetricColumns == {"BestFitness", "Power", "Load", "Network", "Link", "TimeMs"}
HeaderInputs == {MetricColumns, MetricColumns \ {"Link"}}
ChartMetrics == {"BestFitness", "Power"}

\* A run of the simulation writes the same text in every metric cell of its
\* row: the number it measured, or the failure marker.
RowInputs(header) ==
    {[HostCount |-> h, Algorithm |-> a, cells |-> [c \in header |-> t]] :
        h \in HostInputs, a \in AlgoInputs, t \in TextInputs}

Row(h, a, t) ==
    [HostCount |-> h, Algorithm |-> a, cells |-> [c \in MetricColumns |-> t]]

CsvOf(rows) == [exists |-> TRUE, header |-> MetricColumns, rows |-> rows]

\* Worked examples: ACO's Power 100, FAILED, 120 at 10 hosts; the hybrid's
\* four runs with one failure beside one ACO run; PSO without a row at 20
\* hosts; a file of the header alone.
ExampleFiles ==
    {CsvOf(<<Row(10, AcoAlgo, "100"), Row(10, AcoAlgo, "FAILED"),
             Row(10, AcoAlgo, "120")>>),
     CsvOf(<<Row(10, AcoAlgo, "100"), Row(10, HybridAlgo, "100"),
             Row(10, HybridAlgo, "FAILED"), Row(10, HybridAlgo, "120"),
             Row(10, HybridAlgo, "100")>>),
     CsvOf(<<Row(20, AcoAlgo, "100"), Row(10, PsoAlgo, "120"),
             Row(10, AcoAlgo, "100")>>),
     CsvOf(<<>>)}

(***************************************************************************)
(* Actions                                                                 *)
(***************************************************************************)
\* One pass of app.py, with the widgets' values of that pass.
RenderPass ==
    LET df == cached_load_data(cache, file)
    IN  \E selected_hosts \in SUBSET HostsOf(df.rows), metric \in ChartMetrics :
            /\ cache' = cache_after_load(cache, df)
            /\ page' = Script(df, selected_hosts, metric)
            /\ figure' = NoFigure
            /\ UNCHANGED file

\* One run of plot_results.py.
RunExport ==
    /\ figure' = Export(file)
    /\ page' = NoPage
    /\ UNCHANGED <<file, cache>>

\* The simulation writes results.csv anew.
WriteFile ==
    \E f \in ExampleFiles :
        /\ f # file
        /\ file' = f
        /\ page' = NoPage
        /\ figure' = NoFigure
        /\ UNCHANGED cache

DeleteFile ==
    /\ file.exists
    /\ file' = NoFile
    /\ page' = NoPage
    /\ figure' = NoFigure
    /\ UNCHANGED cache

\* The server starts anew: the memo is empty again.
Restart ==
    /\ cache.set
    /\ cache' = NoCache
    /\ page' = NoPage
    /\ figure' = NoFigure
    /\ UNCHANGED file

Init ==
    /\ file \in ExampleFiles \cup {NoFile}
    /\ cache = NoCache
    /\ page = NoPage
    /\ figure = NoFigure

Next == RenderPass \/ RunExport \/ WriteFile \/ DeleteFile \/ Restart

Spec == Init /\ [][Next]_vars

\* One run over one input: every input file, and one program run on it.
InitRun ==
    /\ \/ file = NoFile
       \/ file \in ExampleFiles
       \/ \E hd \in HeaderInputs, n \in 0..MaxRows :
            \E rs \in [1..n -> RowInputs(hd)] :
                file = [exists |-> TRUE, header |-> hd, rows |-> rs]
    /\ cache = NoCache
    /\ page = NoPage
    /\ figure = NoFigure

FirstRun == ~page.ran /\ ~figure.ran

RenderOnce == FirstRun /\ RenderPass

ExportOnce == FirstRun /\ RunExport

NextRun == RenderOnce \/ ExportOnce

SpecRun == InitRun /\ [][NextRun]_vars

(***************************************************************************)
(* Properties                                                              *)
(***************************************************************************)
\* The rows of the table that the pass selected.
SelectedRows == SelectSeq(cache.value.rows,
                          LAMBDA r : r.HostCount \in page.selected_hosts)

\* The rows of `rows` in group (h, a) whose cell in column c is a number.
NonMissing(rows, h, a, c) ==
    {i \in DOMAIN rows : /\ rows[i].HostCount = h
                         /\ rows[i].Algorithm = a
                         /\ IsNum(rows[i].cells[c])}

RECURSIVE SumOver(_, _, _)
\* The sum of column c over the rows idx (whole numbers).
SumOver(rows, c, idx) ==
    IF idx = {} THEN 0
    ELSE LET i == CHOOSE j \in idx : TRUE
         IN  rows[i].cells[c].n + SumOver(rows, c, idx \ {i})

\* Entry e is the mean of its group's numbers, and NaN when it has none.
IsGroupMean(e, rows, c) ==
    LET idx == NonMissing(rows, e.HostCount, e.Algorithm, c)
    IN  IF idx = {} THEN e.val = NaN
        ELSE /\ IsNum(e.val)
             /\ e.val.n * Cardinality(idx) = e.val.d * SumOver(rows, c, idx)

\* means holds one entry per group of rows, each the group's mean.
AreGroupMeans(means, rows, c) ==
    /\ \A i \in DOMAIN means : IsGroupMean(means[i], rows, c)
    /\ \A j \in DOMAIN rows :
          Cardinality({i \in DOMAIN means :
                          /\ means[i].HostCount = rows[j].HostCount
                          /\ means[i].Algorithm = rows[j].Algorithm}) = 1

\* C1: for every (HostCount, Algorithm) group of the selected rows and every
\* metric, the aggregated value is the arithmetic mean of the group's
\* non-missing values only, and it is NaN, never 0, when the group has none;
\* in the dashboard's chart table and in the export's grouped means alike.
C1_GroupMeanSkipsMissing ==
    /\ "charts" \in page.shown =>
          AreGroupMeans(page.chart_df, SelectedRows, page.metric)
    /\ figure.status = "saved" =>
          \A c \in DOMAIN figure.avg_data :
              AreGroupMeans(figure.avg_data[c], figure.df.rows, c)

\* The worked example: the chart's Power mean of ACO at 10 hosts is 110
\* over the rows 100, FAILED, 120.
C1_Witness ==
    /\ "charts" \in page.shown
    /\ page.metric = "Power"
    /\ \E i \in DOMAIN page.chart_df :
          /\ page.chart_df[i].val = Num(110)
          /\ \E j \in DOMAIN SelectedRows :
                /\ SelectedRows[j].HostCount = page.chart_df[i].HostCount
                /\ SelectedRows[j].Algorithm = page.chart_df[i].Algorithm
                /\ IsNaN(SelectedRows[j].cells["Power"])

Undefined(v) == v.k \in {"nan", "inf"}
ShownAsUndefined(t) == t \in {Blank, Str("N/A")}
NotAFigure == {Str("inf"), Str("-inf"), Str("nan")}

\* C2 (as the specification states it): with the summary shown and the
\* baseline (ACO) mean of BestFitness or Power zero, the improvement of that
\* metric is not computed: no "inf", "-inf" or "nan" reaches the card.
C2_ZeroBaselineGuarded ==
    "quality_card" \in page.shown =>
        /\ page.cards.comp_fit = Num(0) =>
              /\ ~Undefined(page.cards.fit_imp)
              /\ page.cards.fit_diff \notin NotAFigure
        /\ page.cards.comp_pwr = Num(0) =>
              /\ ~Undefined(page.cards.pwr_imp)
              /\ page.cards.pwr_diff \notin NotAFigure

\* C3 (as the specification states it): in a pass whose selection holds no
\* ACO row, none of the three stat cards is rendered, no error is raised, and
\* the charts and the raw table are rendered.
C3_BaselineAbsentSummaryOmitted ==
    (/\ page.ran
     /\ page.selected_hosts # {}
     /\ AcoAlgo \notin AlgosOf(SelectedRows)) =>
        /\ page.shown \cap {"quality_card", "energy_card", "reliability_card"} = {}
        /\ "exception" \notin page.shown
        /\ {"charts", "raw_table"} \subseteq page.shown

\* The listed columns cols that the table has hold numbers or NaN, the
\* table's columns are the file's, and every other column is as read.
CleanedAsListed(df, f, cols) ==
    LET raw == read_csv(f)
    IN  /\ df.columns = f.header
        /\ Len(df.rows) = Len(f.rows)
        /\ \A i \in DOMAIN df.rows :
              /\ df.rows[i].HostCount = f.rows[i].HostCount
              /\ df.rows[i].Algorithm = f.rows[i].Algorithm
              /\ \A c \in df.columns :
                    IF c \in cols
                    THEN df.rows[i].cells[c].k \in {"num", "nan"}
                    ELSE df.rows[i].cells[c] = raw.rows[i].cells[c]

ListedColumns == {"BestFitness", "Power", "Load", "Network", "Link"}

\* C4 (amended): after cleaning, each of BestFitness, Power, Load, Network
\* and Link that the input has holds in every row a number or NaN, never a
\* failure marker; a listed column the input lacks is skipped without error;
\* every other column, TimeMs among them, is unchanged.
C4_ListedColumnsCleaned ==
    /\ (cache.set /\ file.exists) => CleanedAsListed(cache.value, file, ListedColumns)
    /\ (figure.ran /\ file.exists) =>
          /\ figure.status \in {"saved", "error"}
          /\ CleanedAsListed(figure.df, file, ListedColumns)

\* C4 (as the specification states it): TimeMs is cleaned as well.
C4_AllMetricColumnsCleaned ==
    /\ (cache.set /\ file.exists) => CleanedAsListed(cache.value, file, MetricColumns)
    /\ (figure.ran /\ file.exists) => CleanedAsListed(figure.df, file, MetricColumns)

\* A cleaned table of a file without a Link column whose failure marker in
\* a listed column became NaN.
C4_Witness ==
    /\ cache.set /\ file.exists
    /\ "Link" \notin cache.value.columns
    /\ \E i \in DOMAIN file.rows :
          /\ file.rows[i].cells["Power"] = "FAILED"
          /\ cache.value.rows[i].cells["Power"] = NaN
          /\ cache.value.rows[i].cells["TimeMs"] = Str("FAILED")

\* C5 (as the specification states it): a value that could not be computed
\* is shown blank or as N/A on the stat cards and the bar labels, and a
\* computed zero is not shown the way an undefined value is.
C5_UndefinedShownBlank ==
    /\ "quality_card" \in page.shown =>
          /\ Undefined(page.cards.hybrid_fit) => ShownAsUndefined(page.cards.fit_value)
          /\ Undefined(page.cards.fit_imp) => ShownAsUndefined(page.cards.fit_diff)
          /\ Undefined(page.cards.hybrid_pwr) => ShownAsUndefined(page.cards.pwr_value)
          /\ Undefined(page.cards.pwr_imp) => ShownAsUndefined(page.cards.pwr_diff)
          /\ Undefined(page.cards.success_rate) => ShownAsUndefined(page.cards.rel_value)
    /\ figure.status = "saved" =>
          \A c \in DOMAIN figure.labels : \A a \in DOMAIN figure.labels[c] :
              \A i \in DOMAIN figure.labels[c][a] :
                  LET v == figure.pivot_data[c].cell[figure.pivot_data[c].index[i]][a]
                      t == figure.labels[c][a][i]
                  IN  /\ Undefined(v) => ShownAsUndefined(t)
                      /\ v = Num(0) => ~ShownAsUndefined(t)

\* C6: a pass with the table loaded and nothing selected shows the sidebar
\* and the warning and nothing else (no card, no chart, no raw table), and
\* the pass after it with a selection is past the check: it shows no
\* warning and goes on to the report.
C6_EmptySelectionStopsPass ==
    /\ [](("sidebar" \in page.shown /\ page.selected_hosts = {}) =>
            /\ page.shown = {"sidebar", "warning"}
            /\ page.cards = NoCards
            /\ page.chart_df = <<>>)
    /\ [][("warning" \in page.shown /\ page'.ran /\ page'.selected_hosts # {}) =>
            /\ "warning" \notin page'.shown
            /\ "title" \in page'.shown]_vars

\* A pass that stopped at the warning, the table loaded and holding rows.
C6_Witness ==
    /\ "warning" \in page.shown
    /\ cache.set
    /\ Len(cache.value.rows) > 0

\* C7 (as the specification states it): with no results.csv, a dashboard
\* pass shows the error message and nothing else, and an export run prints
\* its message and produces no figure.
C7_MissingFileHalts ==
    /\ (page.ran /\ ~file.exists) => page.shown = {"error"}
    /\ (figure.ran /\ ~file.exists) => figure.status = "not_found"

\* C8: every pivot of the export has one row per HostCount of the input,
\* ascending, and one column per Algorithm of the input; the cell of a pair
\* without rows is NaN, not zero, and any other cell is the pair's mean.
C8_PivotComplete ==
    figure.status = "saved" =>
        /\ DOMAIN figure.pivot_data = ListedColumns \cap file.header
        /\ \A c \in DOMAIN figure.pivot_data :
              LET p == figure.pivot_data[c]
              IN  /\ Range(p.index) = HostsOf(file.rows)
                  /\ \A i \in 1..(Len(p.index) - 1) : p.index[i] < p.index[i + 1]
                  /\ Range(p.columns) = AlgosOf(file.rows)
                  /\ Len(p.columns) = Cardinality(AlgosOf(file.rows))
                  /\ \A h \in HostsOf(file.rows), a \in AlgosOf(file.rows) :
                        IF \E j \in DOMAIN file.rows : /\ file.rows[j].HostCount = h
                                                       /\ file.rows[j].Algorithm = a
                        THEN IsGroupMean([HostCount |-> h, Algorithm |-> a,
                                          val |-> p.cell[h][a]],
                                         figure.df.rows, c)
                        ELSE p.cell[h][a] = NaN

\* The worked example: PSO has no row at 20 hosts, the pivot has the row 20
\* after the row 10 though the file lists 20 first, and its PSO cell is NaN.
C8_Witness ==
    /\ figure.status = "saved"
    /\ file.rows[1].HostCount = 20
    /\ figure.pivot_data["Power"].index = <<10, 20>>
    /\ figure.pivot_data["Power"].cell[20][PsoAlgo] = NaN
    /\ figure.pivot_data["Power"].cell[10][PsoAlgo] = Num(120)

\* The hybrid's selected rows, and those with a BestFitness.
HybridSelected ==
    {i \in DOMAIN SelectedRows : SelectedRows[i].Algorithm = HybridAlgo}
HybridSucceeded ==
    {i \in HybridSelected : IsNum(SelectedRows[i].cells["BestFitness"])}

\* C9: a reliability card shown holds 100 * (hybrid rows of the selection
\* with a BestFitness) / (hybrid rows of the selection), printed rounded to
\* a whole percent; with no hybrid row selected the ratio is not evaluated
\* and no card is shown.
C9_Reliability ==
    LET rate == page.cards.success_rate
        shown == page.cards.rel_value
        total == Cardinality(HybridSelected)
        good == Cardinality(HybridSucceeded)
    IN  /\ "reliability_card" \in page.shown =>
              /\ total > 0
              /\ IsNum(rate)
              /\ rate.n * total = 100 * good * rate.d
              /\ shown.k = "fig" /\ shown.d = 1
              /\ 2 * Abs(shown.n * total - 100 * good) <= total
        /\ (page.ran /\ page.selected_hosts # {} /\ total = 0) =>
              /\ "reliability_card" \notin page.shown
              /\ rate = NaN

\* The worked example: three of the hybrid's four runs have a fitness, the
\* card shows 75%.
C9_Witness ==
    /\ "reliability_card" \in page.shown
    /\ Cardinality(HybridSelected) = 4
    /\ page.cards.success_rate = Num(75)
    /\ page.cards.rel_value = V("fig", 75, 1, "")

\* C10 (as the specification states it): the table a pass works on is the
\* cleaned form of the file as it is at that pass.
C10_PassUsesCurrentFile ==
    page.ran => cache.value = load_data_body(file)

====
